---- MODULE Spec2Model ----
(***************************************************************************)
(* Model of config/settings.py: the Settings schema with its validators,   *)
(* the capability queries, and the lazily initialised module-level         *)
(* singleton behind get_settings().                                        *)
(*                                                                         *)
(* Text that a validator transforms (log_level, default_risk_profile) is   *)
(* a sequence of one-character strings, so that upper()/lower() are        *)
(* computed character by character.  Text that is stored untouched (the    *)
(* credentials) is a plain string.  An Optional value is a set with at     *)
(* most one element: None is {} and Some(v) is {v}.  A Path is the         *)
(* sequence of its components below the filesystem root.                   *)
(***************************************************************************)
EXTENDS Integers, Sequences, FiniteSets, TLC

VARIABLES
    env,        \* the environment input read by Settings(): field -> Optional raw text
    dirs,       \* the directories that exist on disk
    readonly,   \* the directories in which nothing may be created
    _settings,  \* the module-level cache (line 142)
    pc,         \* each caller's position inside get_settings()
    local,      \* each caller's Settings() result awaiting the store of line 149
    ret,        \* what each caller's latest call gave: None, a configuration or an error
    flags,      \* what the capability queries told each caller about its configuration
    early,      \* history: the caller's call began before initialisation had completed
    nResolve,   \* history: number of Settings() constructions executed so far
    nEarly,     \* history: those executed by calls that began before initialisation completed
    nFailed,    \* history: number of constructions that raised
    nCreated,   \* history: number of constructions whose mkdir created the logs directory
    firstError, \* history: the error of the first construction, if it failed
    calls,      \* history: number of get_settings() calls begun
    changes     \* history: number of changes made to the environment

vars == <<env, dirs, readonly, _settings, pc, local, ret, flags, early,
          nResolve, nEarly, nFailed, nCreated, firstError, calls, changes>>

\* ------------------------------------------------------------------ bounds

MaxCalls == 3
MaxChanges == 1

\* ---------------------------------------------------------------- optional

None == {}
Some(v) == {v}
The(o) == CHOOSE v \in o : TRUE

\* -------------------------------------------------------------------- text

LowerLetters == <<"a","b","c","d","e","f","g","h","i","j","k","l","m",
                  "n","o","p","q","r","s","t","u","v","w","x","y","z">>
UpperLetters == <<"A","B","C","D","E","F","G","H","I","J","K","L","M",
                  "N","O","P","Q","R","S","T","U","V","W","X","Y","Z">>

IndexIn(c, letters) ==
    IF \E i \in DOMAIN letters : letters[i] = c
    THEN CHOOSE i \in DOMAIN letters : letters[i] = c
    ELSE 0

\* str.upper() on one character: a lower-case letter becomes its capital,
\* anything else (capitals, digits, blanks) is kept.
UpperChar(c) ==
    IF IndexIn(c, LowerLetters) # 0 THEN UpperLetters[IndexIn(c, LowerLetters)] ELSE c

LowerChar(c) ==
    IF IndexIn(c, UpperLetters) # 0 THEN LowerLetters[IndexIn(c, UpperLetters)] ELSE c

Upper(s) == [i \in 1..Len(s) |-> UpperChar(s[i])]
Lower(s) == [i \in 1..Len(s) |-> LowerChar(s[i])]

\* ------------------------------------------------------------------- paths

\* Path(__file__).parent.parent: the directory above config/.
DefaultRoot == <<"app">>

\* Path / "logs"
Join(p, name) == Append(p, name)

Prefixes(p) == { SubSeq(p, 1, k) : k \in 0..Len(p) }

\* The deepest directory on the way to p that exists already.
NearestExisting(p, ds) ==
    CHOOSE a \in Prefixes(p) \cap ds :
        \A b \in Prefixes(p) \cap ds : Len(b) <= Len(a)

\* Mutation: mkdir without exist_ok, which raises FileExistsError (an OSError)
\* when the directory is there.
MkdirWithoutExistOk(p, ds, ro) ==
    IF p \in ds THEN [ok |-> FALSE, dirs |-> ds]
    ELSE IF NearestExisting(p, ds) \in ro THEN [ok |-> FALSE, dirs |-> ds]
    ELSE [ok |-> TRUE, dirs |-> ds \cup Prefixes(p)]

\* v.mkdir(parents=True, exist_ok=True): an existing directory is left alone
\* and is no error; otherwise the missing parents and the directory are
\* created, unless the deepest existing ancestor refuses the creation
\* (PermissionError, an OSError), in which case nothing is created.
Mkdir(p, ds, ro) ==
    IF p \in ds THEN [ok |-> TRUE, dirs |-> ds]
    ELSE IF NearestExisting(p, ds) \in ro THEN [ok |-> FALSE, dirs |-> ds]
    ELSE [ok |-> TRUE, dirs |-> ds \cup Prefixes(p)]

\* -------------------------------------------------------------- validators

valid_levels == << <<"D","E","B","U","G">>, <<"I","N","F","O">>,
                   <<"W","A","R","N","I","N","G">>, <<"E","R","R","O","R">>,
                   <<"C","R","I","T","I","C","A","L">> >>

valid_profiles == << <<"a","g","g","r","e","s","s","i","v","e">>,
                     <<"m","o","d","e","r","a","t","e">>,
                     <<"c","o","n","s","e","r","v","a","t","i","v","e">> >>

\* Python's `x in list`
InList(x, list) == \E i \in DOMAIN list : list[i] = x

\* Mutation: the level is compared as given, without upper().
validate_log_level_as_given(v) ==
    IF ~InList(v, valid_levels)
    THEN [ok |-> FALSE,
          error |-> [type |-> "value_error", field |-> "log_level",
                     msg |-> "Log level must be one of", list |-> valid_levels]]
    ELSE [ok |-> TRUE, value |-> v]

\* Mutation: the level is upper-cased but never compared with the list.
validate_log_level_unchecked(v) == [ok |-> TRUE, value |-> Upper(v)]

\* Mutation: the profile is compared as given, without lower().
validate_risk_profile_as_given(v) ==
    IF ~InList(v, valid_profiles)
    THEN [ok |-> FALSE,
          error |-> [type |-> "value_error", field |-> "default_risk_profile",
                     msg |-> "Risk profile must be one of", list |-> valid_profiles]]
    ELSE [ok |-> TRUE, value |-> v]

\* A validator gives [ok |-> TRUE, value] or, when it raises ValueError,
\* [ok |-> FALSE, error] with the message's fixed text and the list it prints.
validate_log_level(v) ==
    LET u == Upper(v) IN
    IF ~InList(u, valid_levels)
    THEN [ok |-> FALSE,
          error |-> [type |-> "value_error", field |-> "log_level",
                     msg |-> "Log level must be one of", list |-> valid_levels]]
    ELSE [ok |-> TRUE, value |-> u]

validate_risk_profile(v) ==
    LET l == Lower(v) IN
    IF ~InList(l, valid_profiles)
    THEN [ok |-> FALSE,
          error |-> [type |-> "value_error", field |-> "default_risk_profile",
                     msg |-> "Risk profile must be one of", list |-> valid_profiles]]
    ELSE [ok |-> TRUE, value |-> l]

\* create_logs_dir: mkdir, then the path unchanged.  An OSError of mkdir is
\* no ValueError: it leaves the construction at once, as itself.
create_logs_dir(v, ds, ro) ==
    LET m == Mkdir(v, ds, ro) IN
    [ok |-> m.ok, value |-> v, dirs |-> m.dirs]

\* The boolean coercion of langsmith_tracing's raw text.
BoolTrue  == {"true", "1", "yes", "on", "t", "y"}
BoolFalse == {"false", "0", "no", "off", "f", "n"}

\* ------------------------------------------------------------------ schema

INFO == <<"I","N","F","O">>
moderate == <<"m","o","d","e","r","a","t","e">>

\* One field's outcome: its value, and the errors it adds to the report.
Field(value, errors) == [value |-> value, errors |-> errors]

F_grok_api_key(e) ==
    IF e.grok_api_key = None
    THEN Field("", {[type |-> "missing", field |-> "grok_api_key"]})
    ELSE Field(The(e.grok_api_key), {})

F_log_level(e) ==
    IF e.log_level = None THEN Field(INFO, {})
    ELSE LET r == validate_log_level(The(e.log_level)) IN
         IF r.ok THEN Field(r.value, {}) ELSE Field(INFO, {r.error})

F_default_risk_profile(e) ==
    IF e.default_risk_profile = None THEN Field(moderate, {})
    ELSE LET r == validate_risk_profile(The(e.default_risk_profile)) IN
         IF r.ok THEN Field(r.value, {}) ELSE Field(moderate, {r.error})

F_langsmith_tracing(e) ==
    IF e.langsmith_tracing = None THEN Field(FALSE, {})
    ELSE IF The(e.langsmith_tracing) \in BoolTrue THEN Field(TRUE, {})
    ELSE IF The(e.langsmith_tracing) \in BoolFalse THEN Field(FALSE, {})
    ELSE Field(FALSE, {[type |-> "bool_parsing", field |-> "langsmith_tracing"]})

F_project_root(e) ==
    IF e.project_root = None THEN DefaultRoot ELSE The(e.project_root)

F_logs_dir(e) ==
    IF e.logs_dir = None THEN Join(DefaultRoot, "logs") ELSE The(e.logs_dir)

\* Settings(): every field takes its input or its default and is validated;
\* the validation errors of all fields are gathered into one ValidationError,
\* raised after the last field.  logs_dir is the last field and its validator
\* runs always, so mkdir runs whether or not an earlier field was in error.
\* `id` is the identity of the object constructed.
Settings(e, ds, ro, id) ==
    LET grok  == F_grok_api_key(e)
        level == F_log_level(e)
        risk  == F_default_risk_profile(e)
        trace == F_langsmith_tracing(e)
        made  == create_logs_dir(F_logs_dir(e), ds, ro)
        errs  == grok.errors \cup level.errors \cup risk.errors \cup trace.errors
    IN  IF ~made.ok
        THEN [ok |-> FALSE, dirs |-> made.dirs,
              error |-> [exception |-> "OSError", errors |-> {}]]
        ELSE IF errs # {}
        THEN [ok |-> FALSE, dirs |-> made.dirs,
              error |-> [exception |-> "ValidationError", errors |-> errs]]
        ELSE [ok |-> TRUE, dirs |-> made.dirs,
              value |-> [id |-> id,
                         grok_api_key |-> grok.value,
                         twitter_bearer_token |-> e.twitter_bearer_token,
                         reddit_client_id |-> e.reddit_client_id,
                         reddit_client_secret |-> e.reddit_client_secret,
                         langsmith_api_key |-> e.langsmith_api_key,
                         langsmith_tracing |-> trace.value,
                         log_level |-> level.value,
                         default_risk_profile |-> risk.value,
                         project_root |-> F_project_root(e),
                         logs_dir |-> made.value]]

has_twitter_config(self) == self.twitter_bearer_token # None

\* Mutation: one of the two reddit credentials is enough.
has_reddit_config_either(self) ==
    \/ self.reddit_client_id # None
    \/ self.reddit_client_secret # None

has_reddit_config(self) ==
    /\ self.reddit_client_id # None
    /\ self.reddit_client_secret # None

has_langsmith_config(self) == self.langsmith_api_key # None /\ self.langsmith_tracing

\* ------------------------------------------------------------------ inputs

Threads == {"main", "worker"}

GrokInputs == {None, Some(""), Some("k1")}

LogLevelInputs == {None, Some(<<"I","n","F","o">>),
                   Some(<<"w","a","r","n","i","n","g">>),
                   Some(<<"T","R","A","C","E">>)}

RiskInputs == {None, Some(<<"A","G","G","R","E","S","S","I","V","E">>),
               Some(<<"M","o","d","e","r","a","t","e">>),
               Some(<<"r","i","s","k","y">>)}

TracingInputs == {None, Some("true"), Some("off"), Some("maybe")}

RootInputs == {None, Some(<<"srv">>)}

LogsDirInputs == {None, Some(<<"var","log","app">>)}

EnvSpace ==
    [grok_api_key : GrokInputs,
     log_level : LogLevelInputs,
     default_risk_profile : RiskInputs,
     twitter_bearer_token : {None, Some(""), Some("tok")},
     reddit_client_id : {None, Some("rid")},
     reddit_client_secret : {None, Some("rsec")},
     langsmith_api_key : {None, Some("ls")},
     langsmith_tracing : TracingInputs,
     project_root : RootInputs,
     logs_dir : LogsDirInputs]

\* The environment that sets nothing.
EmptyEnv ==
    [grok_api_key |-> None, log_level |-> None, default_risk_profile |-> None,
     twitter_bearer_token |-> None, reddit_client_id |-> None,
     reddit_client_secret |-> None, langsmith_api_key |-> None,
     langsmith_tracing |-> None, project_root |-> None, logs_dir |-> None]

\* The keys the environment may change while callers are running, the values
\* they take (for the risk profile: unset or illegal), and the environments
\* that set only those.
ChangingKeys == {"grok_api_key", "log_level", "default_risk_profile"}

KeyInputs(k) ==
    IF k = "grok_api_key" THEN GrokInputs
    ELSE IF k = "log_level" THEN LogLevelInputs
    ELSE {None, Some(<<"r","i","s","k","y">>)}

ChangingEnvs ==
    { [EmptyEnv EXCEPT !.grok_api_key = g, !.log_level = l,
                       !.default_risk_profile = r] :
        g \in KeyInputs("grok_api_key"), l \in KeyInputs("log_level"),
        r \in KeyInputs("default_risk_profile") }

\* The disk before the first call: either only the project directory exists
\* and anything may be created, or the default logs directory exists already
\* and nothing may be created anywhere.
FsInputs ==
    { [dirs |-> {<<>>, DefaultRoot}, readonly |-> {}],
      [dirs |-> {<<>>, DefaultRoot, Join(DefaultRoot, "logs")},
       readonly |-> {<<>>, DefaultRoot, Join(DefaultRoot, "logs")}] }

\* ----------------------------------------------------------------- results

Returned(cfg) == [ok |-> TRUE, value |-> cfg]
Raised(err) == [ok |-> FALSE, error |-> err]

\* -------------------------------------------------------------------- Init

\* The module's state once line 142 has run, for the environments `envs`.
InitWith(envs) ==
    /\ env \in envs
    /\ \E fs \in FsInputs : dirs = fs.dirs /\ readonly = fs.readonly
    /\ _settings = None
    /\ pc = [t \in Threads |-> "idle"]
    /\ local = [t \in Threads |-> None]
    /\ ret = [t \in Threads |-> None]
    /\ flags = [t \in Threads |-> None]
    /\ early = [t \in Threads |-> FALSE]
    /\ nResolve = 0
    /\ nEarly = 0
    /\ nFailed = 0
    /\ nCreated = 0
    /\ firstError = None
    /\ calls = 0
    /\ changes = 0

Init == InitWith(ChangingEnvs)

InitSeq == InitWith(EnvSpace)

\* ----------------------------------------------------------- get_settings()

\* Initialisation has completed once a configuration is cached or a
\* construction has raised.
Uninitialised == _settings = None /\ nFailed = 0

\* A caller enters get_settings(): the module-level call of line 153, or a
\* consumer's call.
Call(t) ==
    /\ pc[t] = "idle"
    /\ calls < MaxCalls
    /\ pc' = [pc EXCEPT ![t] = "check"]
    /\ calls' = calls + 1
    /\ early' = [early EXCEPT ![t] = Uninitialised]
    /\ ret' = [ret EXCEPT ![t] = None]
    /\ flags' = [flags EXCEPT ![t] = None]
    /\ UNCHANGED <<env, dirs, readonly, _settings, local,
                   nResolve, nEarly, nFailed, nCreated, firstError, changes>>

\* Mutation: the cache is not consulted and every call constructs.
CheckIgnoringCache(t) ==
    /\ pc[t] = "check"
    /\ pc' = [pc EXCEPT ![t] = "construct"]
    /\ UNCHANGED <<env, dirs, readonly, _settings, local, ret, flags, early,
                   nResolve, nEarly, nFailed, nCreated, firstError, calls, changes>>

\* Line 148: `if _settings is None`.
Check(t) ==
    /\ pc[t] = "check"
    /\ pc' = [pc EXCEPT ![t] = IF _settings = None THEN "construct" ELSE "return"]
    /\ UNCHANGED <<env, dirs, readonly, _settings, local, ret, flags, early,
                   nResolve, nEarly, nFailed, nCreated, firstError, calls, changes>>

\* Line 149, right-hand side: Settings() on the environment and the disk as
\* they are now.  A failure leaves get_settings() as an exception.
Construct(t) ==
    /\ pc[t] = "construct"
    /\ LET r == Settings(env, dirs, readonly, nResolve + 1) IN
       /\ dirs' = r.dirs
       /\ nCreated' = IF r.dirs # dirs THEN nCreated + 1 ELSE nCreated
       /\ firstError' = IF nResolve = 0 /\ ~r.ok THEN Some(r.error) ELSE firstError
       /\ IF r.ok
          THEN /\ local' = [local EXCEPT ![t] = Some(r.value)]
               /\ pc' = [pc EXCEPT ![t] = "store"]
               /\ ret' = ret
          ELSE /\ local' = local
               /\ pc' = [pc EXCEPT ![t] = "idle"]
               /\ ret' = [ret EXCEPT ![t] = Some(Raised(r.error))]
       /\ nFailed' = IF r.ok THEN nFailed ELSE nFailed + 1
    /\ nResolve' = nResolve + 1
    /\ nEarly' = IF early[t] THEN nEarly + 1 ELSE nEarly
    /\ UNCHANGED <<env, readonly, _settings, flags, early, calls, changes>>

\* Line 149, the assignment to the global.
Store(t) ==
    /\ pc[t] = "store"
    /\ _settings' = local[t]
    /\ local' = [local EXCEPT ![t] = None]
    /\ pc' = [pc EXCEPT ![t] = "return"]
    /\ UNCHANGED <<env, dirs, readonly, ret, flags, early,
                   nResolve, nEarly, nFailed, nCreated, firstError, calls, changes>>

\* Line 150: `return _settings`, the global as it is now.
Return(t) ==
    /\ pc[t] = "return"
    /\ ret' = [ret EXCEPT ![t] = Some(Returned(The(_settings)))]
    /\ pc' = [pc EXCEPT ![t] = "idle"]
    /\ UNCHANGED <<env, dirs, readonly, _settings, local, flags, early,
                   nResolve, nEarly, nFailed, nCreated, firstError, calls, changes>>

\* A consumer asks the configuration it was given the three capability
\* queries.
Query(t) ==
    /\ pc[t] = "idle"
    /\ ret[t] # None
    /\ The(ret[t]).ok
    /\ flags[t] = None
    /\ flags' = [flags EXCEPT ![t] =
                   Some([twitter |-> has_twitter_config(The(ret[t]).value),
                         reddit |-> has_reddit_config(The(ret[t]).value),
                         langsmith |-> has_langsmith_config(The(ret[t]).value)])]
    /\ UNCHANGED <<env, dirs, readonly, _settings, pc, local, ret, early,
                   nResolve, nEarly, nFailed, nCreated, firstError, calls, changes>>

\* The environment input changes between the steps of the callers.
SetEnv(k, v) ==
    /\ changes < MaxChanges
    /\ env[k] # v
    /\ env' = [env EXCEPT ![k] = v]
    /\ changes' = changes + 1
    /\ UNCHANGED <<dirs, readonly, _settings, pc, local, ret, flags, early,
                   nResolve, nEarly, nFailed, nCreated, firstError, calls>>

Next ==
    \/ \E t \in Threads : Call(t)
    \/ \E t \in Threads : Check(t)
    \/ \E t \in Threads : Construct(t)
    \/ \E t \in Threads : Store(t)
    \/ \E t \in Threads : Return(t)
    \/ \E k \in ChangingKeys : \E v \in KeyInputs(k) : SetEnv(k, v)

Spec == Init /\ [][Next]_vars

\* One caller at a time and an environment that stays as it is: the module's
\* own call of line 153 followed by its consumers' calls and their capability
\* queries.
NextSeq ==
    \/ Call("main")
    \/ Check("main")
    \/ Construct("main")
    \/ Store("main")
    \/ Return("main")
    \/ Query("main")

SeqSpec == InitSeq /\ [][NextSeq]_vars

\* ================================================================== claims

\* The configurations some caller or the cache holds.
Configs ==
    _settings
      \cup UNION { local[t] : t \in Threads }
      \cup { The(ret[t]).value : t \in { u \in Threads : ret[u] # None /\ The(ret[u]).ok } }

\* The errors the callers' latest calls raised.
Errors ==
    { The(ret[t]).error : t \in { u \in Threads : ret[u] # None /\ ~The(ret[u]).ok } }

\* What the specification expects, written out independently of the code.
FiveLevels == { <<"D","E","B","U","G">>, <<"I","N","F","O">>,
                <<"W","A","R","N","I","N","G">>, <<"E","R","R","O","R">>,
                <<"C","R","I","T","I","C","A","L">> }

ThreeProfiles == { <<"a","g","g","r","e","s","s","i","v","e">>,
                   <<"m","o","d","e","r","a","t","e">>,
                   <<"c","o","n","s","e","r","v","a","t","i","v","e">> }

InputGrokOk == env.grok_api_key # None
InputLevelOk == env.log_level \in {None, Some(<<"I","n","F","o">>),
                                   Some(<<"w","a","r","n","i","n","g">>)}
InputRiskOk == env.default_risk_profile \in
                   {None, Some(<<"A","G","G","R","E","S","S","I","V","E">>),
                    Some(<<"M","o","d","e","r","a","t","e">>)}
InputTracingOk == env.langsmith_tracing # Some("maybe")
ExpectedLogsDir == IF env.logs_dir = None THEN <<"app", "logs">> ELSE The(env.logs_dir)
InputDirOk == readonly = {} \/ env.logs_dir = None

\* C1: when several callers invoke get_settings() before initialisation has
\* completed, exactly one Settings() construction executes and all of them
\* observe the same result or the same failure.
C1_OneResolutionForConcurrentCallers ==
    /\ nEarly <= 1
    /\ \A t, u \in Threads :
         (early[t] /\ early[u] /\ ret[t] # None /\ ret[u] # None) => ret[t] = ret[u]

\* C2: once the first call's resolution has failed, the calls that begin
\* afterwards run no resolution again and each of them fails with the first
\* call's error, so that none of them returns a configuration.
C2_FirstFailureIsFinal ==
    firstError # None =>
        /\ nResolve = nEarly
        /\ \A t \in Threads :
             (~early[t] /\ ret[t] # None) => ret[t] = Some(Raised(The(firstError)))

\* No construction is under way or awaiting its store: the calls that follow
\* come one after another behind a completed initialisation.
Settled ==
    /\ _settings # None
    /\ nResolve = 1
    /\ \A t \in Threads : pc[t] \notin {"construct", "store"}

\* C3: after a successful first resolution, every later call returns the
\* cached configuration, the same object with the same field values, Settings()
\* is never constructed again (it has run exactly once), and the logs
\* directory is neither created again nor touched, also when the environment
\* changes between the calls.
C3_CachedConfigurationIsReused ==
    [][ Settled =>
          /\ Settled'
          /\ _settings' = _settings
          /\ nResolve' = 1
          /\ nFailed' = 0
          /\ nCreated' = nCreated /\ nCreated <= 1
          /\ dirs' = dirs
          /\ \A t \in Threads :
               (pc[t] = "return" /\ pc'[t] = "idle") =>
                   ret'[t] = Some(Returned(The(_settings))) ]_vars

\* C3's case: a later call has returned the cached configuration although the
\* environment no longer supplies what the configuration holds.
C3_Witness ==
    /\ Settled
    /\ changes > 0
    /\ calls >= 2
    /\ nCreated = 1
    /\ env.grok_api_key # Some(The(_settings).grok_api_key)
    /\ \E t \in Threads :
         /\ pc[t] = "idle"
         /\ ~early[t]
         /\ ret[t] = Some(Returned(The(_settings)))

\* C4: the primary credential of every resolved configuration is the supplied
\* value and is non-empty; an input that omits it, or supplies an empty one,
\* makes every resolution fail, with a `missing` error when it is omitted.
C4_PrimaryCredentialNonEmpty ==
    /\ \A c \in Configs : c.grok_api_key # "" /\ env.grok_api_key = Some(c.grok_api_key)
    /\ (env.grok_api_key \in {None, Some("")}) => Configs = {} /\ nFailed = nResolve
    /\ \A e \in Errors :
         (env.grok_api_key = None /\ e.exception = "ValidationError") =>
             [type |-> "missing", field |-> "grok_api_key"] \in e.errors

\* C5: a log_level whose upper-case form is one of the five levels is stored
\* as that upper-case form and, the other inputs being valid, resolution
\* succeeds; any other log_level makes resolution fail, and with the other
\* inputs valid the failure is a validation error for log_level alone whose
\* message lists exactly the five levels.
C5_LogLevelNormalised ==
    LET given == env.log_level
        legal == given = None \/ Upper(The(given)) \in FiveLevels
        others == InputGrokOk /\ InputRiskOk /\ InputTracingOk /\ InputDirOk
    IN  /\ legal = InputLevelOk
        /\ \A c \in Configs :
             /\ c.log_level \in FiveLevels
             /\ given # None => c.log_level = Upper(The(given))
             /\ given = Some(<<"I","n","F","o">>) => c.log_level = <<"I","N","F","O">>
             /\ given = Some(<<"w","a","r","n","i","n","g">>) =>
                    c.log_level = <<"W","A","R","N","I","N","G">>
        /\ (legal /\ others) => nFailed = 0
        /\ ~legal => Configs = {} /\ nFailed = nResolve
        /\ \A e \in Errors :
             (~legal /\ others) =>
                 /\ e.exception = "ValidationError"
                 /\ Cardinality(e.errors) = 1
                 /\ \A x \in e.errors :
                      /\ x.field = "log_level"
                      /\ Len(x.list) = 5
                      /\ { x.list[i] : i \in 1..5 } = FiveLevels

\* C5's case: the mixed-case input InFo has been resolved and cached as INFO.
C5_Witness ==
    /\ env.log_level = Some(<<"I","n","F","o">>)
    /\ _settings # None
    /\ The(_settings).log_level = <<"I","N","F","O">>

\* C6: a default_risk_profile whose lower-case form is one of the three
\* profiles is stored as that lower-case form and, the other inputs being
\* valid, resolution succeeds; any other value makes resolution fail as a
\* whole; without an input the stored value is "moderate".
C6_RiskProfileNormalised ==
    LET given == env.default_risk_profile
        legal == given = None \/ Lower(The(given)) \in ThreeProfiles
        others == InputGrokOk /\ InputLevelOk /\ InputTracingOk /\ InputDirOk
    IN  /\ legal = InputRiskOk
        /\ \A c \in Configs :
             /\ c.default_risk_profile \in ThreeProfiles
             /\ given # None => c.default_risk_profile = Lower(The(given))
             /\ given = None => c.default_risk_profile = <<"m","o","d","e","r","a","t","e">>
             /\ given = Some(<<"A","G","G","R","E","S","S","I","V","E">>) =>
                    c.default_risk_profile = <<"a","g","g","r","e","s","s","i","v","e">>
        /\ (legal /\ others) => nFailed = 0
        /\ ~legal => Configs = {} /\ nFailed = nResolve
        /\ \A e \in Errors :
             (~legal /\ others) =>
                 /\ e.exception = "ValidationError"
                 /\ \A x \in e.errors : x.field = "default_risk_profile"

\* C6's case: the input AGGRESSIVE has been resolved and cached as aggressive.
C6_Witness ==
    /\ env.default_risk_profile = Some(<<"A","G","G","R","E","S","S","I","V","E">>)
    /\ _settings # None
    /\ The(_settings).default_risk_profile = <<"a","g","g","r","e","s","s","i","v","e">>

\* C7: without a logs_dir input the resolved logs_dir is the resolved
\* project_root of the same configuration followed by "logs", also when
\* project_root is supplied; with a logs_dir input it is that input.
C7_LogsDirFollowsProjectRoot ==
    \A c \in Configs :
        /\ env.logs_dir = None => c.logs_dir = Join(c.project_root, "logs")
        /\ env.logs_dir # None => c.logs_dir = The(env.logs_dir)

\* C8: the logs directory of every resolved configuration exists on disk with
\* all its parents, whether it was supplied or defaulted; a resolution never
\* fails while the directory is there; and with valid inputs the only failure
\* is the OSError of a creation that was refused.
C8_LogsDirExists ==
    /\ \A c \in Configs :
         /\ c.logs_dir = ExpectedLogsDir
         /\ Prefixes(c.logs_dir) \subseteq dirs
    /\ \A e \in Errors :
         /\ e.exception = "OSError" => (ExpectedLogsDir \notin dirs /\ readonly # {})
         /\ (InputGrokOk /\ InputLevelOk /\ InputRiskOk /\ InputTracingOk) =>
                e.exception = "OSError"
    /\ ExpectedLogsDir \in dirs =>
           firstError # Some([exception |-> "OSError", errors |-> {}])

\* C8's case: the supplied logs directory /var/log/app did not exist and has
\* been created together with its parents by the resolution now cached.
C8_Witness ==
    /\ env.logs_dir = Some(<<"var","log","app">>)
    /\ _settings # None
    /\ The(_settings).logs_dir = <<"var","log","app">>
    /\ {<<"var">>, <<"var","log">>, <<"var","log","app">>} \subseteq dirs
    /\ nCreated = 1

\* C9: for every resolved configuration the capability queries answer:
\* reddit iff client id and client secret are both present, twitter iff the
\* bearer token is present, langsmith iff the API key is present and tracing
\* is enabled; the stored optional fields are the inputs, absent when not
\* supplied, so that without input all three answers are false.
C9_CapabilityFlags ==
    \A t \in Threads :
        flags[t] # None =>
            LET f == The(flags[t])
                c == The(ret[t]).value
            IN  /\ f.reddit = (c.reddit_client_id # {} /\ c.reddit_client_secret # {})
                /\ f.reddit = (env.reddit_client_id # {} /\ env.reddit_client_secret # {})
                /\ f.twitter = (c.twitter_bearer_token # {})
                /\ f.twitter = (env.twitter_bearer_token \in {{""}, {"tok"}})
                /\ f.langsmith = (c.langsmith_api_key # {} /\ c.langsmith_tracing = TRUE)
                /\ f.langsmith = (env.langsmith_api_key # {}
                                    /\ env.langsmith_tracing = {"true"})
                /\ (env.langsmith_tracing = {} => c.langsmith_tracing = FALSE)
                /\ (/\ env.reddit_client_id = {} /\ env.reddit_client_secret = {}
                    /\ env.twitter_bearer_token = {} /\ env.langsmith_api_key = {}
                    /\ env.langsmith_tracing = {})
                       => (~f.reddit /\ ~f.twitter /\ ~f.langsmith)

\* C9's case: only the reddit client id is supplied, and the query has
\* answered false.
C9_Witness ==
    /\ env.reddit_client_id # None
    /\ env.reddit_client_secret = None
    /\ flags["main"] # None
    /\ ~The(flags["main"]).reddit

\* A configuration that passed every validator.
Validated(c) ==
    /\ c.grok_api_key \in {"", "k1"}
    /\ c.log_level \in FiveLevels
    /\ c.default_risk_profile \in ThreeProfiles

\* C10: the cache is unset or holds a configuration that passed every
\* validator, and so does every caller; while every resolution so far has
\* failed the cache is unset and no caller holds a configuration; a call that
\* raised gave its caller an error and nothing else.
C10_OnlyValidatedConfigurations ==
    /\ \A c \in Configs : Validated(c)
    /\ (nResolve = nFailed) => Configs = {}
    /\ \A t \in Threads :
         (ret[t] # None /\ ~The(ret[t]).ok) =>
             /\ DOMAIN The(ret[t]) = {"ok", "error"}
             /\ pc[t] = "idle" => local[t] = None

\* C10's case: a resolution of the illegal level TRACE has failed, its caller
\* holds the error, and the cache is still unset.
C10_Witness ==
    /\ env.log_level = Some(<<"T","R","A","C","E">>)
    /\ nFailed > 0
    /\ _settings = None
    /\ \E t \in Threads : ret[t] # None /\ ~The(ret[t]).ok

====
